---- MODULE Spec2Model ----
(***************************************************************************)
(* Model of the zypin process supervisor (core/process-manager.js) and of  *)
(* the status endpoint that reads it (core/server.js, /api/health).        *)
(*                                                                         *)
(* One invocation of the command-line tool is one OS process that          *)
(* constructs one ProcessManager.  The state file and the OS process table *)
(* outlive every invocation.  startPackage is an async function: it runs   *)
(* synchronously up to `await plugin.interface.start(...)`, and the rest   *)
(* runs when the provider's promise settles; a signal handler (cleanup),   *)
(* a status request or an OS event may run in between.                     *)
(*                                                                         *)
(* The same invocation holds one ZypinServer (core/server.js): the fields  *)
(* app, server and isRunning, the listeners it has created on the fixed    *)
(* port, and the status(url) probe that any invocation sends to a server.  *)
(*                                                                         *)
(* It also holds one PluginLoader (core/plugin-loader.js): the catalog of  *)
(* providers found under the configured root paths, filled at construction *)
(* and again at every reload(), and one TemplateScanner                    *)
(* (core/package-loader.js): the catalog of the templates found under the  *)
(* cataloged providers.  The start command (cli/global.js) ties the probe,  *)
(* the server and the supervisor together.                                 *)
(***************************************************************************)
EXTENDS Naturals, Sequences, FiniteSets

VARIABLES
    cmd,        \* the start command of the invocation: where it stands
    tdisk,      \* the template directories under the plugin directories
    templates,  \* this.templates of the TemplateScanner, in insertion order
    tout,       \* the last operation of the TemplateScanner, "stale" once
                \* the disk or the provider catalog has changed since
    disk,       \* the root paths and the plugin directories under them
    cache,      \* the module cache of require(), per plugin directory
    plugins,    \* this.plugins of the PluginLoader, in insertion order
    changes,    \* how many times the disk has been changed so far
    lout,       \* the last operation of the PluginLoader, "stale" once the
                \* disk has changed since
    srv,        \* the ZypinServer fields app, server, isRunning
    listeners,  \* listeners[k]: the k-th http.Server created by app.listen
    port,       \* whether another program listens on the fixed port
    probe,      \* the status(url) call whose fetch is in flight
    sout,       \* what the last server operation did (reset by any other step)
    up,         \* up[i]: invocation i is a running process with a ProcessManager
    processes,  \* processes[i]: this.processes, the Map, in insertion order
    pending,    \* pending[i]: the startPackage call that is awaiting the provider
    file,       \* the state file .zypin-processes.json
    written,    \* the Map that the last successful write put into the file
    faults,     \* how many writes of the state file have failed so far
    os,         \* the OS process table, as seen by the user running the tool
    now,        \* the wall clock read by new Date()
    out,        \* what the last supervisor operation did (reset by any other step)
    sig         \* sig[i]: a SIGINT/SIGTERM handler of invocation i awaits stopServer

supervisorVars == <<up, processes, pending, file, written, faults, os, now, out, sig>>

serverVars == <<srv, listeners, port, probe, sout>>

loaderVars == <<disk, cache, plugins, changes, lout>>

templateVars == <<tdisk, templates, tout>>

commandVars == <<cmd>>

vars == <<supervisorVars, serverVars, loaderVars, templateVars, commandVars>>

(***************************************************************************)
(* Bounds and domains                                                      *)
(***************************************************************************)
MaxPid == 2
MaxTime == 1
MaxFaults == 1
MaxListeners == 2
MaxConns == 1
MaxClosers == 2
MaxChanges == 3
MaxPackages == 2

\* config.pluginPaths has two entries (core/config.js).
NumPluginPaths == 2

\* The invocations of the tool that may run at the same time; all but the
\* second specification of two overlapping invocations run the first only.
Invocations == {"A", "B"}
Insts == {"A"}
Names == {"a", "b"}
Pids == 1..MaxPid
Times == 0..MaxTime

\* A ProcessRecord, the processInfo object of startPackage.
ProcessInfo(n, p, t) == [name |-> n, pid |-> p, startTime |-> t]

(***************************************************************************)
(* The Map this.processes: a sequence of records keyed by their name       *)
(***************************************************************************)
MapHas(m, n) == \E k \in 1..Len(m) : m[k].name = n

MapGet(m, n) == m[CHOOSE k \in 1..Len(m) : m[k].name = n]

MapDelete(m, n) == SelectSeq(m, LAMBDA r : r.name # n)

\* Map.set keeps the position of an existing key and appends a new one.
MapSet(m, n, v) ==
    IF MapHas(m, n)
    THEN [k \in 1..Len(m) |-> IF m[k].name = n THEN v ELSE m[k]]
    ELSE Append(m, v)

MapKeys(m) == {m[k].name : k \in 1..Len(m)}

(***************************************************************************)
(* The state file                                                          *)
(***************************************************************************)
FileMissing == [kind |-> "missing", table |-> <<>>]
FileCorrupt == [kind |-> "corrupt", table |-> <<>>]
FileJson(m) == [kind |-> "json", table |-> m]

\* A loadState that keeps only the records whose process answers a probe.
LoadStateProbing(f) ==
    IF f.kind = "json" THEN SelectSeq(f.table, LAMBDA r : os[r.pid] = "own") ELSE <<>>

\* loadState: a missing file is skipped, a read or parse error is swallowed,
\* every entry of a parsed file is put into the Map as it is (no probe).
LoadState(f) == IF f.kind = "json" THEN f.table ELSE <<>>

\* A saveState that never reaches the file.
SaveStateDropped(m, f, w) == f

\* A saveState that reads the file again and keeps the records of the
\* names its own Map does not hold.
SaveStateMerging(m, f, w) ==
    IF w THEN FileJson(SelectSeq(LoadState(f), LAMBDA r : ~MapHas(m, r.name)) \o m) ELSE f

\* saveState: the whole Map replaces the file; a failed write is logged only.
SaveState(m, f, w) == IF w THEN FileJson(m) ELSE f

\* The table a reader of the state file gets.
Persisted == LoadState(file)

(***************************************************************************)
(* The OS process table                                                    *)
(***************************************************************************)
\* os[p] is "none" (no such process), "own" (a process the tool's user may
\* signal) or "other" (a process of another user: kill(2) fails with EPERM).
Exists(p) == os[p] # "none"

\* process.kill(pid, 0) returns normally iff the process exists and the
\* caller may signal it; it throws ESRCH or EPERM otherwise.
Kill0(p) == os[p] = "own"

FreePids == {p \in Pids : os[p] = "none"}

(***************************************************************************)
(* Effects of an operation, in the order the code performs them            *)
(***************************************************************************)
Ev(e, p, ok) == [ev |-> e, pid |-> p, ok |-> ok]

NoPayload == [code |-> 0, running |-> 0, packages |-> <<>>]
NoHandle == [kind |-> "none", pid |-> 0]

\* The record of the last operation: what it returned, what it did and
\* where it started from.  prev: for a startPackage call, the name of the
\* startPackage call that had just returned true when it was made (and no
\* cleanup ran since), else "none"; for a cleanup, whether the operation
\* just before it was a cleanup, and whether that one failed to write.
NoOut == [op |-> "none", inst |-> "A", name |-> "a", ret |-> "none",
          effects |-> <<>>, before |-> <<>>, fileBefore |-> FileMissing,
          pid |-> 0, payload |-> NoPayload, handle |-> NoHandle,
          hasStart |-> TRUE, prev |-> "none"]

PrevStart(o) ==
    IF o.op = "startPackage" /\ o.ret = "true" THEN o.name ELSE "none"

FailedSave(e) == \E k \in 1..Len(e) : e[k].ev = "save" /\ ~e[k].ok

PrevCleanup(o) ==
    IF o.op # "cleanup" THEN "none"
    ELSE IF FailedSave(o.effects) THEN "cleanupWriteFailed" ELSE "cleanup"

Out(o, i, n, r, e) ==
    [NoOut EXCEPT !.op = o, !.inst = i, !.name = n, !.ret = r, !.effects = e,
                  !.before = processes[i], !.fileBefore = file]

Idle == [state |-> "idle", name |-> "a", effects |-> <<>>, child |-> 0,
         prev |-> "none"]

(***************************************************************************)
(* startPackage                                                            *)
(***************************************************************************)
\* Lines 78-84: a record exists and the probe of its pid does not throw.
AlreadyRunning(m, n) == MapHas(m, n) /\ Kill0(MapGet(m, n).pid)

\* Lines 85-89: a record exists and the probe throws.
IsStale(m, n) == MapHas(m, n) /\ ~Kill0(MapGet(m, n).pid)

\* The whole Map is cleared with the stale record.
PurgeStaleAll(m, n) == <<>>

\* The stale record is reported but not deleted.
PurgeStaleKept(m, n) == m

\* Lines 88-89: the Map after the stale record is deleted.
PurgeStale(m, n) == MapDelete(m, n)

\* Effects of lines 78-91 on a Map m for name n when writes succeed iff w.
ProbeEffects(m, n, w) ==
    IF ~MapHas(m, n) THEN <<>>
    ELSE IF AlreadyRunning(m, n)
         THEN <<Ev("probe", MapGet(m, n).pid, TRUE)>>
         ELSE <<Ev("probe", MapGet(m, n).pid, FALSE), Ev("save", 0, w)>>

\* What plugin.interface.start settles to: a rejection or exception
\* ("throw"), or a value; pid = 0 stands for a value that is null or whose
\* pid is missing or falsy.
Handles == [kind : {"throw", "value"}, pid : 0..MaxPid]

\* Any settled value counts, whether or not it carries a pid.
UsablePidUnchecked(h) == h.kind = "value"

\* Line 104: process && process.pid
UsablePid(h) == h.kind = "value" /\ h.pid # 0

\* A write of the state file is attempted iff `attempted`; it succeeds iff w.
\* Writes fail for reasons outside the program (permissions, a full disk).
WriteOutcome(attempted, w) ==
    /\ ~attempted => w
    /\ ~w => faults < MaxFaults
    /\ faults' = IF w THEN faults ELSE faults + 1

\* The capability flag is not consulted.
LacksStartIgnored(hasStart) == FALSE

\* Line 93: !plugin.hasStart
LacksStart(hasStart) == ~hasStart

\* Lines 77-102: the synchronous part of startPackage, up to the await.
StartPackage(i, n, hasStart, w) ==
    /\ up[i]
    /\ pending[i].state = "idle"
    /\ WriteOutcome(IsStale(processes[i], n), w)
    /\ LET m  == processes[i]
           e1 == ProbeEffects(m, n, w)
           e2 == e1 \o <<Ev("invoke", 0, TRUE)>>
           m1 == IF IsStale(m, n) THEN PurgeStale(m, n) ELSE m
           f1 == IF IsStale(m, n) THEN SaveState(m1, file, w) ELSE file
           o  == [Out("startPackage", i, n, "false", e1)
                    EXCEPT !.hasStart = hasStart,
                           !.prev = PrevStart(out)]
       IN  IF AlreadyRunning(m, n)
           THEN /\ out' = o
                /\ UNCHANGED <<processes, pending, file, written>>
           ELSE /\ processes' = [processes EXCEPT ![i] = m1]
                /\ file' = f1
                /\ written' = IF IsStale(m, n) /\ w THEN m1 ELSE written
                /\ IF LacksStart(hasStart)
                   THEN /\ out' = o
                        /\ UNCHANGED pending
                   ELSE /\ pending' = [pending EXCEPT ![i] =
                                [state |-> "await", name |-> n, effects |-> e2,
                                 child |-> 0, prev |-> PrevStart(out)]]
                        /\ out' = [o EXCEPT !.ret = "pending", !.effects = e2]
    /\ UNCHANGED <<up, os, now, sig>>

\* The provider creates the child process while startPackage awaits it.
PluginSpawn(i, p) ==
    /\ up[i]
    /\ pending[i].state = "await"
    /\ pending[i].child = 0
    /\ p \in FreePids
    /\ os' = [os EXCEPT ![p] = "own"]
    /\ pending' = [pending EXCEPT ![i].child = p]
    /\ out' = NoOut
    /\ UNCHANGED <<up, processes, file, written, faults, now, sig>>

\* The values the provider's start may settle to: it reports the child it
\* created, or no usable pid, or it fails.
Settles(i) ==
    {h \in Handles : h.pid \in {0, pending[i].child}}

\* Lines 102-123: the continuation of startPackage after the await.
StartResolve(i, h, w) ==
    /\ up[i]
    /\ pending[i].state = "await"
    /\ h \in Settles(i)
    /\ WriteOutcome(UsablePid(h), w)
    /\ LET n == pending[i].name
           m == processes[i]
           o == [Out("startPackage", i, n, "false", pending[i].effects)
                    EXCEPT !.handle = h, !.prev = pending[i].prev]
       IN  IF UsablePid(h)
           THEN LET m1 == MapSet(m, n, ProcessInfo(n, h.pid, now))
                IN  /\ processes' = [processes EXCEPT ![i] = m1]
                    /\ file' = SaveState(m1, file, w)
                    /\ written' = IF w THEN m1 ELSE written
                    /\ out' = [o EXCEPT !.ret = "true", !.pid = h.pid,
                                  !.effects = pending[i].effects \o <<Ev("save", 0, w)>>]
           ELSE /\ out' = o
                /\ UNCHANGED <<processes, file, written>>
    /\ pending' = [pending EXCEPT ![i] = Idle]
    /\ UNCHANGED <<up, os, now, sig>>

(***************************************************************************)
(* getStatus and the status endpoint                                       *)
(***************************************************************************)
\* Array.from(this.processes.values())
MapValues(m) == m

\* A getStatus that reads the state file instead of the Map.
GetStatusPersisted(m) ==
    [code |-> 0,
     running |-> Len(IF file.kind = "json" THEN file.table ELSE <<>>),
     packages |-> IF file.kind = "json" THEN file.table ELSE <<>>]

\* A getStatus that lists only the records whose process answers a probe.
GetStatusLive(m) ==
    [code |-> 0,
     running |-> Len(SelectSeq(m, LAMBDA r : os[r.pid] = "own")),
     packages |-> SelectSeq(m, LAMBDA r : os[r.pid] = "own")]

\* Lines 127-133.
GetStatusOf(m) ==
    [code |-> 0, running |-> Len(MapValues(m)), packages |-> MapValues(m)]

\* A getStatus that probes every pid and drops the records of dead ones.
GetStatusPruning(i) ==
    /\ up[i]
    /\ processes' = [processes EXCEPT ![i] =
                        SelectSeq(processes[i], LAMBDA r : os[r.pid] = "own")]
    /\ out' = [Out("getStatus", i, "a", "none",
                   [k \in 1..Len(processes[i]) |->
                        Ev("probe", processes[i][k].pid, os[processes[i][k].pid] = "own")])
                  EXCEPT !.payload = [code |-> 0,
                                      running |-> Len(processes'[i]),
                                      packages |-> processes'[i]]]
    /\ UNCHANGED <<up, pending, file, written, faults, os, now, sig>>

GetStatus(i) ==
    /\ up[i]
    /\ out' = [Out("getStatus", i, "a", "none", <<>>)
                  EXCEPT !.payload = GetStatusOf(processes[i])]
    /\ UNCHANGED <<up, processes, pending, file, written, faults, os, now, sig>>

\* GET /api/health: res.json(processManager.getStatus()), status 200.
HealthResponse(m) == [GetStatusOf(m) EXCEPT !.code = 200]

Health(i) ==
    /\ up[i]
    /\ out' = [Out("health", i, "a", "none", <<>>)
                  EXCEPT !.payload = HealthResponse(processes[i])]
    /\ UNCHANGED <<up, processes, pending, file, written, faults, os, now, sig>>

(***************************************************************************)
(* cleanup                                                                 *)
(***************************************************************************)
\* A killProcessByPid that signals without probing first.
KillProcessByPidUnprobed(p, o, race) ==
    IF o[p] # "own"
    THEN [ret |-> FALSE, effects |-> <<Ev("kill", p, FALSE)>>, os |-> o]
    ELSE [ret |-> TRUE, effects |-> <<Ev("kill", p, TRUE)>>, os |-> o]

\* Lines 63-75, on process table o.  race: the process exits after the
\* probe and before the signal, so the second process.kill throws.
KillProcessByPid(p, o, race) ==
    IF o[p] # "own"
    THEN [ret |-> FALSE, effects |-> <<Ev("probe", p, FALSE)>>, os |-> o]
    ELSE IF race
         THEN [ret |-> FALSE,
               effects |-> <<Ev("probe", p, TRUE), Ev("kill", p, FALSE)>>,
               os |-> [o EXCEPT ![p] = "none"]]
         ELSE [ret |-> TRUE,
               effects |-> <<Ev("probe", p, TRUE), Ev("kill", p, TRUE)>>,
               os |-> o]

\* Lines 140-146: the loop over the Map, from entry k on.
RECURSIVE KillAll(_, _, _, _)
KillAll(m, k, o, R) ==
    IF k > Len(m) THEN [effects |-> <<>>, os |-> o]
    ELSE LET r    == KillProcessByPid(m[k].pid, o, m[k].pid \in R)
             warn == IF r.ret THEN <<>> ELSE <<Ev("warn", m[k].pid, FALSE)>>
             rest == KillAll(m, k + 1, r.os, R)
         IN  [effects |-> r.effects \o warn \o rest.effects, os |-> rest.os]

\* The tracked pids that may exit during the loop.
RaceCandidates(m) == {m[k].pid : k \in {j \in 1..Len(m) : os[m[j].pid] = "own"}}

\* Lines 135-151.  R: the pids that exit between their probe and their signal.
Cleanup(i, R, w) ==
    /\ up[i]
    /\ WriteOutcome(Len(processes[i]) > 0, w)
    /\ R \subseteq RaceCandidates(processes[i])
    /\ IF Len(processes[i]) > 0
       THEN LET r == KillAll(processes[i], 1, os, R)
            IN  /\ os' = r.os
                /\ processes' = [processes EXCEPT ![i] = <<>>]
                /\ file' = SaveState(<<>>, file, w)
                /\ written' = IF w THEN <<>> ELSE written
                /\ out' = [Out("cleanup", i, "a", "none",
                               r.effects \o <<Ev("save", 0, w)>>)
                              EXCEPT !.prev = PrevCleanup(out)]
       ELSE /\ out' = [Out("cleanup", i, "a", "none", <<>>)
                          EXCEPT !.prev = PrevCleanup(out)]
            /\ UNCHANGED <<os, processes, file, written>>
    /\ pending' = [pending EXCEPT ![i].prev = "none"]
    /\ UNCHANGED <<up, now>>

(***************************************************************************)
(* SIGINT and SIGTERM                                                      *)
(***************************************************************************)
\* The listeners of a signal run one after the other in the order they were
\* registered: first the supervisor's (process-manager.js lines 58-59, set
\* up when cli/global.js requires the module), which runs cleanup() to its
\* end, then the command line's (cli/index.js lines 101-111), which runs up
\* to `await zypinServer.stopServer()`.  Nothing else runs in between.
Signal(i, R, w) ==
    /\ Cleanup(i, R, w)
    /\ sig' = [sig EXCEPT ![i] = TRUE]

\* The command line's handler exits whether or not cleanup has run.
HandlerExitUnawaited(i) ==
    /\ up[i]
    /\ up' = [up EXCEPT ![i] = FALSE]
    /\ processes' = [processes EXCEPT ![i] = <<>>]
    /\ pending' = [pending EXCEPT ![i] = Idle]
    /\ out' = [Out("exit", i, "a", "none", <<>>)
                  EXCEPT !.prev = IF sig[i] THEN "cleanup" ELSE "none"]
    /\ sig' = [sig EXCEPT ![i] = FALSE]
    /\ UNCHANGED <<file, written, faults, os, now>>

\* cli/index.js lines 104 and 110: stopServer has resolved and the handler
\* calls process.exit(0).  out.before is the table the process exits with.
HandlerExit(i) ==
    /\ up[i]
    /\ sig[i]
    /\ up' = [up EXCEPT ![i] = FALSE]
    /\ processes' = [processes EXCEPT ![i] = <<>>]
    /\ pending' = [pending EXCEPT ![i] = Idle]
    /\ out' = [Out("exit", i, "a", "none", <<>>) EXCEPT !.prev = "cleanup"]
    /\ sig' = [sig EXCEPT ![i] = FALSE]
    /\ UNCHANGED <<file, written, faults, os, now>>

(***************************************************************************)
(* Construction and exit of an invocation                                  *)
(***************************************************************************)
\* A constructor that lets the read error of loadState escape.
ConstructStrict(i) ==
    /\ ~up[i]
    /\ up' = [up EXCEPT ![i] = file.kind # "corrupt"]
    /\ processes' = [processes EXCEPT ![i] = LoadState(file)]
    /\ pending' = [pending EXCEPT ![i] = Idle]
    /\ out' = Out("construct", i, "a",
                  IF file.kind = "corrupt" THEN "raised" ELSE "none", <<>>)
    /\ sig' = [sig EXCEPT ![i] = FALSE]
    /\ UNCHANGED <<file, written, faults, os, now>>

\* new ProcessManager(): an empty Map, then loadState().
Construct(i) ==
    /\ ~up[i]
    /\ up' = [up EXCEPT ![i] = TRUE]
    /\ processes' = [processes EXCEPT ![i] = LoadState(file)]
    /\ pending' = [pending EXCEPT ![i] = Idle]
    /\ out' = Out("construct", i, "a", "none", <<>>)
    /\ sig' = [sig EXCEPT ![i] = FALSE]
    /\ UNCHANGED <<file, written, faults, os, now>>

\* The invocation ends without running cleanup (the command returned, or the
\* process was killed): its memory is gone, its children and the file stay.
Exit(i) ==
    /\ up[i]
    /\ up' = [up EXCEPT ![i] = FALSE]
    /\ processes' = [processes EXCEPT ![i] = <<>>]
    /\ pending' = [pending EXCEPT ![i] = Idle]
    /\ out' = NoOut
    /\ sig' = [sig EXCEPT ![i] = FALSE]
    /\ UNCHANGED <<file, written, faults, os, now>>

(***************************************************************************)
(* The environment                                                         *)
(***************************************************************************)
\* A process exits.
Die(p) ==
    /\ os[p] # "none"
    /\ os' = [os EXCEPT ![p] = "none"]
    /\ out' = NoOut
    /\ UNCHANGED <<up, processes, pending, file, written, faults, now, sig>>

\* Another user's process starts, possibly on a pid used before.
OtherSpawn(p) ==
    /\ p \in FreePids
    /\ os' = [os EXCEPT ![p] = "other"]
    /\ out' = NoOut
    /\ UNCHANGED <<up, processes, pending, file, written, faults, now, sig>>

\* Time passes.
Tick ==
    /\ now < MaxTime
    /\ now' = now + 1
    /\ out' = NoOut
    /\ UNCHANGED <<up, processes, pending, file, written, faults, os, sig>>

\* The state file is damaged while no invocation runs.
CorruptFile ==
    /\ file.kind = "json"
    /\ \A i \in Insts : ~up[i]
    /\ file' = FileCorrupt
    /\ out' = NoOut
    /\ UNCHANGED <<up, processes, pending, written, faults, os, now, sig>>

(***************************************************************************)
(* ZypinServer: the fields and the listeners                               *)
(***************************************************************************)
ListenerIds == 1..MaxListeners

\* Constructor, lines 69-74; server = 0 stands for null.
InitSrv == [app |-> FALSE, server |-> 0, isRunning |-> FALSE]

\* An http.Server made by app.listen.  state: "free" (no such object),
\* "bound" (listening, its callback not yet called), "listening", "error"
\* (the bind failed, the error not yet delivered), "failed", "closing"
\* (close() was called: no new connection is accepted, the open ones go on).
\* conns: its open connections; closers: the close callbacks registered.
NoListener == [state |-> "free", conns |-> 0, closers |-> 0]

Accepting(l) == l.state \in {"bound", "listening"}

OursAccepting == \E k \in ListenerIds : Accepting(listeners[k])

\* The fixed port is in use, by this program or by another one.
PortTaken == port = "other" \/ OursAccepting

\* The listener objects that nothing refers to any more.
FreeSlots ==
    {k \in ListenerIds : /\ listeners[k].state \in {"free", "failed"}
                         /\ listeners[k].closers = 0
                         /\ k # srv.server}

NewSlot == CHOOSE k \in FreeSlots : \A j \in FreeSlots : k <= j

NoResult == [isRunning |-> FALSE, url |-> "none", status |-> 0, error |-> "none"]

\* The record of the last server operation.  op: "startServer", "stopServer"
\* and "status" are the calls, with ret "resolved" when the promise they
\* return is already resolved and "pending" otherwise; "started",
\* "startFailed", "stopped" and "statusDone" are the callbacks that settle
\* a pending promise.  was, wasAccepting, wasClosing: the fields and the
\* listeners when the call was made; created: the call made a listener.
NoSOut == [op |-> "none", ret |-> "none", created |-> FALSE, was |-> InitSrv,
           wasAccepting |-> FALSE, wasClosing |-> FALSE, result |-> NoResult]

SOut(o, r, c) ==
    [NoSOut EXCEPT !.op = o, !.ret = r, !.created = c, !.was = srv,
                   !.wasAccepting = OursAccepting,
                   !.wasClosing = \E k \in ListenerIds : listeners[k].state = "closing"]

(***************************************************************************)
(* startServer                                                             *)
(***************************************************************************)
\* The flag is ignored: every call makes a listener.
AlreadyStartedNever(s) == FALSE

\* Line 105: if (this.isRunning)
AlreadyStarted(s) == s.isRunning

\* Lines 104-114, up to the return of the promise.  listen() binds the port
\* at once; its callback, or the error, comes later.
StartServer ==
    /\ IF AlreadyStarted(srv) THEN TRUE ELSE FreeSlots # {}
    /\ IF AlreadyStarted(srv)
       THEN /\ sout' = SOut("startServer", "resolved", FALSE)
            /\ UNCHANGED <<srv, listeners>>
       ELSE /\ listeners' = [listeners EXCEPT ![NewSlot] =
                                [state |-> IF PortTaken THEN "error" ELSE "bound",
                                 conns |-> 0, closers |-> 0]]
            /\ srv' = [srv EXCEPT !.app = TRUE, !.server = NewSlot]
            /\ sout' = SOut("startServer", "pending", TRUE)
    /\ UNCHANGED <<port, probe>>

\* Lines 114-124 without error: the listen callback.
ListenCallback(k) ==
    /\ listeners[k].state = "bound"
    /\ listeners' = [listeners EXCEPT ![k].state = "listening"]
    /\ srv' = [srv EXCEPT !.isRunning = TRUE]
    /\ sout' = SOut("started", "resolved", FALSE)
    /\ UNCHANGED <<port, probe>>

\* The bind failed (EADDRINUSE).  Lines 115-119 when the framework hands
\* the error to the callback: the promise is rejected.  A framework that
\* registers the callback for 'listening' only leaves the 'error' event
\* without a listener, and the process dies of it (crash).
ListenError(k, crash) ==
    /\ listeners[k].state = "error"
    /\ IF crash
       THEN /\ listeners' = [j \in ListenerIds |-> NoListener]
            /\ srv' = InitSrv
            /\ sout' = SOut("startFailed", "crashed", FALSE)
       ELSE /\ listeners' = [listeners EXCEPT ![k].state = "failed"]
            /\ srv' = srv
            /\ sout' = SOut("startFailed", "rejected", FALSE)
    /\ UNCHANGED <<port, probe>>

(***************************************************************************)
(* stopServer                                                              *)
(***************************************************************************)
\* Line 133: if (!this.isRunning || !this.server)
NotStarted(s) == ~s.isRunning \/ s.server = 0

\* Lines 132-139, up to the return of the promise.  close() stops the
\* listener from accepting at once; its callback comes when the open
\* connections have ended.  close() on a listener that is not listening
\* only registers the callback.
StopServer ==
    /\ IF NotStarted(srv) THEN TRUE ELSE listeners[srv.server].closers < MaxClosers
    /\ IF NotStarted(srv)
       THEN /\ sout' = SOut("stopServer", "resolved", FALSE)
            /\ UNCHANGED <<srv, listeners>>
       ELSE /\ listeners' = [listeners EXCEPT ![srv.server] =
                                [state |-> IF Accepting(@) THEN "closing" ELSE @.state,
                                 conns |-> @.conns,
                                 closers |-> @.closers + 1]]
            /\ sout' = SOut("stopServer", "pending", FALSE)
            /\ UNCHANGED srv
    /\ UNCHANGED <<port, probe>>

\* Lines 139-149: the 'close' event runs every registered callback.
CloseCallback(k) ==
    /\ listeners[k].state \in {"closing", "failed"}
    /\ listeners[k].closers > 0
    /\ listeners[k].conns = 0
    /\ listeners' = [listeners EXCEPT ![k] = NoListener]
    /\ srv' = [srv EXCEPT !.isRunning = FALSE, !.server = 0]
    /\ sout' = SOut("stopped", "resolved", FALSE)
    /\ UNCHANGED <<port, probe>>

(***************************************************************************)
(* The network around the server                                           *)
(***************************************************************************)
\* A client connects and keeps the connection open.
ConnOpen(k) ==
    /\ Accepting(listeners[k])
    /\ listeners[k].conns < MaxConns
    /\ listeners' = [listeners EXCEPT ![k].conns = @ + 1]
    /\ sout' = NoSOut
    /\ UNCHANGED <<srv, port, probe>>

ConnClose(k) ==
    /\ listeners[k].conns > 0
    /\ listeners' = [listeners EXCEPT ![k].conns = @ - 1]
    /\ sout' = NoSOut
    /\ UNCHANGED <<srv, port, probe>>

\* Another program (another controller, or anything else) takes the port.
OtherBind ==
    /\ ~PortTaken
    /\ port' = "other"
    /\ sout' = NoSOut
    /\ UNCHANGED <<srv, listeners, probe>>

OtherRelease ==
    /\ port = "other"
    /\ port' = "free"
    /\ sout' = NoSOut
    /\ UNCHANGED <<srv, listeners, probe>>

\* The invocation that holds the server ends: its listeners go with it.
ServerExit ==
    /\ srv # InitSrv
    /\ srv' = InitSrv
    /\ listeners' = [k \in ListenerIds |-> NoListener]
    /\ sout' = NoSOut
    /\ UNCHANGED <<port, probe>>

(***************************************************************************)
(* status(url)                                                             *)
(***************************************************************************)
\* "local" is the default http://localhost:8421, "remote" any other server.
Urls == {"local", "remote"}

Codes == {200, 404, 500}

NetworkFailures == {"refused", "dns", "timeout"}

\* silent: the endpoint accepts the connection and never answers.
NoProbe == [state |-> "idle", url |-> "none", silent |-> FALSE]

\* response.ok: the status code is in the range 200-299.
ResponseOk(c) == c >= 200 /\ c <= 299

\* The rejection escapes instead of being turned into a result.
StatusOfErrorRaised(u, r) == [isRunning |-> FALSE, url |-> u, status |-> 0, error |-> "raised"]

\* Lines 163-167.
StatusOfResponse(u, c) ==
    [isRunning |-> ResponseOk(c), url |-> u, status |-> c, error |-> "none"]

\* Lines 168-174.
StatusOfError(u, r) ==
    [isRunning |-> FALSE, url |-> u, status |-> 0, error |-> r]

\* Lines 157-161: the call, up to `await fetch(...)`.  No timeout and no
\* abort signal is passed to fetch.
StatusCall(u, silent) ==
    /\ probe.state = "idle"
    /\ silent => (u = "remote" \/ port = "other")
    /\ probe' = [state |-> "fetching", url |-> u, silent |-> silent]
    /\ sout' = SOut("status", "pending", FALSE)
    /\ UNCHANGED <<srv, listeners, port>>

\* The status codes the endpoint may answer with: this program's own
\* /api/health answers 200 (lines 87-90), another program anything.
AnswerCodes ==
    IF probe.silent THEN {}
    ELSE IF probe.url = "remote" \/ port = "other" THEN Codes
    ELSE IF OursAccepting THEN {200}
    ELSE {}

\* The network-level failures the fetch may meet.
FailReasons ==
    IF probe.url = "local"
    THEN IF PortTaken THEN {} ELSE {"refused"}
    ELSE IF probe.silent THEN {} ELSE NetworkFailures

\* Lines 159-167: fetch resolves with a response.
FetchResponse(c) ==
    /\ probe.state = "fetching"
    /\ c \in AnswerCodes
    /\ probe' = NoProbe
    /\ sout' = [SOut("statusDone", "resolved", FALSE)
                   EXCEPT !.result = StatusOfResponse(probe.url, c)]
    /\ UNCHANGED <<srv, listeners, port>>

\* Lines 168-174: fetch rejects.
FetchFails(r) ==
    /\ probe.state = "fetching"
    /\ r \in FailReasons
    /\ probe' = NoProbe
    /\ sout' = [SOut("statusDone", "resolved", FALSE)
                   EXCEPT !.result = StatusOfError(probe.url, r)]
    /\ UNCHANGED <<srv, listeners, port>>

\* The endpoint stays silent and the runtime's fetch gives up by itself.
\* The program asks for no timeout, so nothing makes this step happen.
FetchGivesUp ==
    /\ probe.state = "fetching"
    /\ probe.silent
    /\ probe' = NoProbe
    /\ sout' = [SOut("statusDone", "resolved", FALSE)
                   EXCEPT !.result = StatusOfError(probe.url, "timeout")]
    /\ UNCHANGED <<srv, listeners, port>>

(***************************************************************************)
(* The server's specification                                              *)
(***************************************************************************)
ServerInit ==
    /\ srv = InitSrv
    /\ listeners = [k \in ListenerIds |-> NoListener]
    /\ port = "free"
    /\ probe = NoProbe
    /\ sout = NoSOut

ServerNext ==
    \/ StartServer /\ UNCHANGED <<supervisorVars, loaderVars, templateVars, commandVars>>
    \/ (\E k \in ListenerIds : ListenCallback(k)) /\ UNCHANGED <<supervisorVars, loaderVars, templateVars, commandVars>>
    \/ (\E k \in ListenerIds, crash \in BOOLEAN : ListenError(k, crash)) /\ UNCHANGED <<supervisorVars, loaderVars, templateVars, commandVars>>
    \/ StopServer /\ UNCHANGED <<supervisorVars, loaderVars, templateVars, commandVars>>
    \/ (\E k \in ListenerIds : CloseCallback(k)) /\ UNCHANGED <<supervisorVars, loaderVars, templateVars, commandVars>>
    \/ (\E k \in ListenerIds : ConnOpen(k)) /\ UNCHANGED <<supervisorVars, loaderVars, templateVars, commandVars>>
    \/ (\E k \in ListenerIds : ConnClose(k)) /\ UNCHANGED <<supervisorVars, loaderVars, templateVars, commandVars>>
    \/ OtherBind /\ UNCHANGED <<supervisorVars, loaderVars, templateVars, commandVars>>
    \/ OtherRelease /\ UNCHANGED <<supervisorVars, loaderVars, templateVars, commandVars>>
    \/ ServerExit /\ UNCHANGED <<supervisorVars, loaderVars, templateVars, commandVars>>
    \/ (\E u \in Urls, silent \in BOOLEAN : StatusCall(u, silent)) /\ UNCHANGED <<supervisorVars, loaderVars, templateVars, commandVars>>
    \/ (\E c \in Codes : FetchResponse(c)) /\ UNCHANGED <<supervisorVars, loaderVars, templateVars, commandVars>>
    \/ (\E r \in NetworkFailures : FetchFails(r)) /\ UNCHANGED <<supervisorVars, loaderVars, templateVars, commandVars>>
    \/ FetchGivesUp /\ UNCHANGED <<supervisorVars, loaderVars, templateVars, commandVars>>

(***************************************************************************)
(* PluginLoader: the disk and the candidates                               *)
(***************************************************************************)
\* config.pluginPaths, in the configured order.
Roots == 1..NumPluginPaths

\* The directory names under a root, in the order readdirSync lists them.
DirSeq == <<"p", "q">>
DirNames == {DirSeq[k] : k \in 1..Len(DirSeq)}

CapNames == {"start", "run", "health"}

\* What an interface declares for a property: nothing (undefined), a falsy
\* value such as the empty string ("empty"), any other value that is not a
\* function ("value"), or a function.
Interface(n, v, st, ru, he) ==
    [name |-> n, version |-> v, start |-> st, run |-> ru, health |-> he]

AllInterfaces ==
    [name : {"none", "empty", "value"}, version : {"none", "empty", "value"},
     start : {"none", "value", "function"}, run : {"none", "value", "function"},
     health : {"none", "value", "function"}]

\* The interfaces put on the modelled disk: two complete ones and one for
\* each way of being incomplete.
DiskInterfaces ==
    { Interface("value", "value", "function", "none", "none"),
      Interface("value", "value", "none", "function", "function"),
      Interface("none", "value", "function", "none", "none"),
      Interface("empty", "value", "function", "none", "none"),
      Interface("value", "none", "function", "none", "none"),
      Interface("value", "empty", "none", "function", "none"),
      Interface("value", "value", "none", "none", "none"),
      Interface("value", "value", "value", "none", "none") }

NoInterface == Interface("none", "none", "none", "none", "none")

\* A directory under a root.  index: index.js exists; throws: requiring it
\* throws (or it exports null, so that reading a property throws).
NoDir == [kind |-> "absent", index |-> FALSE, throws |-> FALSE, interface |-> NoInterface]

Candidates ==
    {[kind |-> "dir", index |-> FALSE, throws |-> FALSE, interface |-> NoInterface],
     [kind |-> "dir", index |-> TRUE, throws |-> TRUE, interface |-> NoInterface]}
    \cup {[kind |-> "dir", index |-> TRUE, throws |-> FALSE, interface |-> f] : f \in DiskInterfaces}

NotCached == [cached |-> FALSE, interface |-> NoInterface]

EmptyDisk ==
    [ok |-> [r \in Roots |-> TRUE], dirs |-> [r \in Roots |-> [d \in DirNames |-> NoDir]]]

EmptyCache == [r \in Roots |-> [d \in DirNames |-> NotCached]]

\* The directory names under templates/, in the order readdirSync lists
\* them.
TmplSeq == <<"t", "u">>
TmplNames == {TmplSeq[k] : k \in 1..Len(TmplSeq)}

\* A directory under templates/.  descriptor: package.json exists; parses:
\* it holds JSON; runner: runner.js exists.
NoTemplate == [kind |-> "absent", descriptor |-> FALSE, parses |-> FALSE, runner |-> FALSE]

TemplateDirs ==
    {[kind |-> "dir", descriptor |-> FALSE, parses |-> FALSE, runner |-> FALSE],
     [kind |-> "dir", descriptor |-> TRUE, parses |-> TRUE, runner |-> FALSE],
     [kind |-> "dir", descriptor |-> FALSE, parses |-> FALSE, runner |-> TRUE],
     [kind |-> "dir", descriptor |-> TRUE, parses |-> TRUE, runner |-> TRUE],
     [kind |-> "dir", descriptor |-> TRUE, parses |-> FALSE, runner |-> TRUE]}

NoTemplates == [t \in TmplNames |-> NoTemplate]

(***************************************************************************)
(* PluginLoader: discovery                                                 *)
(***************************************************************************)
Truthy(x) == x \notin {"none", "empty"}

IsFunction(x) == x = "function"

\* The version is not looked at.
ValidatePluginInterfaceNameOnly(f) ==
    /\ ~(~Truthy(f.name))
    /\ (IsFunction(f.start) \/ IsFunction(f.run) \/ IsFunction(f.health))

\* Lines 87-105.
ValidatePluginInterface(f) ==
    /\ ~(~Truthy(f.name) \/ ~Truthy(f.version))
    /\ (IsFunction(f.start) \/ IsFunction(f.run) \/ IsFunction(f.health))

\* Lines 70-79; the name is the directory's, not the interface's.
PluginInfo(d, r, f) ==
    [name |-> d, root |-> r, interface |-> f,
     hasStart |-> IsFunction(f.start), hasRun |-> IsFunction(f.run),
     hasHealth |-> IsFunction(f.health)]

\* require(indexPath): the cached module if there is one, else the module
\* on disk, which is cached unless loading it throws.
Require(ch, dk, r, d) ==
    IF ch[r][d].cached THEN [ok |-> TRUE, interface |-> ch[r][d].interface]
    ELSE IF dk.dirs[r][d].throws THEN [ok |-> FALSE, interface |-> NoInterface]
    ELSE [ok |-> TRUE, interface |-> dk.dirs[r][d].interface]

\* loadPlugin without its try/catch: what require throws leaves the call.
LoadPluginUncaught(st, dk, r, d) ==
    IF ~dk.dirs[r][d].index THEN st
    ELSE LET m == Require(st.cache, dk, r, d)
         IN  IF ~m.ok THEN [st EXCEPT !.thrown = TRUE]
             ELSE LET ch == [st.cache EXCEPT ![r][d] =
                                [cached |-> TRUE, interface |-> m.interface]]
                  IN  IF ~ValidatePluginInterface(m.interface)
                      THEN [st EXCEPT !.cache = ch]
                      ELSE [st EXCEPT !.cache = ch,
                               !.plugins = MapSet(st.plugins, d, PluginInfo(d, r, m.interface))]

\* loadPlugin keeping the record a name already has.
LoadPluginFirstWins(st, dk, r, d) ==
    IF ~dk.dirs[r][d].index THEN st
    ELSE LET m == Require(st.cache, dk, r, d)
         IN  IF ~m.ok THEN [st EXCEPT !.thrown = FALSE]
             ELSE LET ch == [st.cache EXCEPT ![r][d] =
                                [cached |-> TRUE, interface |-> m.interface]]
                  IN  IF ~ValidatePluginInterface(m.interface) \/ MapHas(st.plugins, d)
                      THEN [st EXCEPT !.cache = ch]
                      ELSE [st EXCEPT !.cache = ch,
                               !.plugins = MapSet(st.plugins, d, PluginInfo(d, r, m.interface))]

\* Lines 51-85 for directory d of root r, on catalog and cache st; thrown
\* tells whether an exception leaves the call, and the catch of lines 82-84
\* lets none leave.
LoadPlugin(st, dk, r, d) ==
    IF ~dk.dirs[r][d].index THEN st
    ELSE LET m == Require(st.cache, dk, r, d)
         IN  IF ~m.ok THEN [st EXCEPT !.thrown = FALSE]
             ELSE LET ch == [st.cache EXCEPT ![r][d] =
                                [cached |-> TRUE, interface |-> m.interface]]
                  IN  IF ~ValidatePluginInterface(m.interface)
                      THEN [st EXCEPT !.cache = ch]
                      ELSE [st EXCEPT !.cache = ch,
                               !.plugins = MapSet(st.plugins, d, PluginInfo(d, r, m.interface))]

\* Lines 36-49: the directories of root r from the k-th on.  An exception
\* in the forEach ends the scan of this root and is swallowed by the catch
\* of lines 46-48.
RECURSIVE ScanPluginPath(_, _, _, _)
ScanPluginPath(st, dk, r, k) ==
    IF st.thrown THEN [st EXCEPT !.thrown = FALSE]
    ELSE IF k > Len(DirSeq) THEN st
    ELSE LET d == DirSeq[k]
             s1 == IF dk.dirs[r][d].kind = "absent" THEN st ELSE LoadPlugin(st, dk, r, d)
         IN  ScanPluginPath(s1, dk, r, k + 1)

\* Lines 23-34: the roots from the r-th on; a root that does not exist or
\* cannot be read is skipped.  An exception in the forEach ends the
\* discovery and is swallowed by the catch of lines 31-33.
RECURSIVE LoadPlugins(_, _, _)
LoadPlugins(st, dk, r) ==
    IF st.thrown THEN [st EXCEPT !.thrown = FALSE]
    ELSE IF r > NumPluginPaths THEN st
    ELSE LoadPlugins(IF dk.ok[r] THEN ScanPluginPath(st, dk, r, 1) ELSE st, dk, r + 1)

\* A discovery that starts from an empty catalog with module cache ch.
Discover(ch, dk) == LoadPlugins([plugins |-> <<>>, cache |-> ch, thrown |-> FALSE], dk, 1)

\* Lines 18-21, when the module is first required.
LoaderConstruct ==
    /\ lout = "none"
    /\ LET st == Discover(cache, disk)
       IN  /\ plugins' = st.plugins
           /\ cache' = st.cache
    /\ lout' = "construct"
    /\ UNCHANGED <<disk, changes, templateVars>>

\* Lines 115-118.
Reload ==
    /\ lout # "none"
    /\ LET st == Discover(cache, disk)
       IN  /\ plugins' = st.plugins
           /\ cache' = st.cache
    /\ lout' = "reload"
    /\ tout' = IF tout = "none" THEN "none" ELSE "stale"
    /\ UNCHANGED <<disk, changes, tdisk, templates>>

\* The invocation ends: the catalogs and the module cache go with it.
LoaderExit ==
    /\ lout # "none"
    /\ plugins' = <<>>
    /\ cache' = EmptyCache
    /\ lout' = "none"
    /\ templates' = <<>>
    /\ tout' = "none"
    /\ UNCHANGED <<disk, changes, tdisk>>

\* A plugin directory is installed, replaced or removed; a removed one
\* takes its templates with it.
Install(r, d, c) ==
    /\ changes < MaxChanges
    /\ c # disk.dirs[r][d]
    /\ disk' = [disk EXCEPT !.dirs[r][d] = c]
    /\ tdisk' = [tdisk EXCEPT ![r][d] = IF c = NoDir THEN NoTemplates ELSE @]
    /\ changes' = changes + 1
    /\ lout' = IF lout = "none" THEN "none" ELSE "stale"
    /\ tout' = IF tout = "none" THEN "none" ELSE "stale"
    /\ UNCHANGED <<cache, plugins, templates>>

\* A root path appears, disappears or becomes unreadable.
SetRoot(r, b) ==
    /\ changes < MaxChanges
    /\ b # disk.ok[r]
    /\ disk' = [disk EXCEPT !.ok[r] = b]
    /\ changes' = changes + 1
    /\ lout' = IF lout = "none" THEN "none" ELSE "stale"
    /\ tout' = IF tout = "none" THEN "none" ELSE "stale"
    /\ UNCHANGED <<cache, plugins, tdisk, templates>>

LoaderInit ==
    /\ disk = EmptyDisk
    /\ cache = EmptyCache
    /\ plugins = <<>>
    /\ changes = 0
    /\ lout = "none"
    /\ tdisk = [r \in Roots |-> [d \in DirNames |-> NoTemplates]]
    /\ templates = <<>>
    /\ tout = "none"

LoaderNext ==
    \/ LoaderConstruct /\ UNCHANGED <<supervisorVars, serverVars, commandVars>>
    \/ Reload /\ UNCHANGED <<supervisorVars, serverVars, commandVars>>
    \/ LoaderExit /\ UNCHANGED <<supervisorVars, serverVars, commandVars>>
    \/ (\E r \in Roots, d \in DirNames, c \in Candidates \cup {NoDir} : Install(r, d, c))
            /\ UNCHANGED <<supervisorVars, serverVars, commandVars>>
    \/ (\E r \in Roots, b \in BOOLEAN : SetRoot(r, b)) /\ UNCHANGED <<supervisorVars, serverVars, commandVars>>

(***************************************************************************)
(* TemplateScanner                                                         *)
(***************************************************************************)
\* The Map this.templates: a sequence of entries, each a key and its value.
TMapHas(m, k) == \E j \in 1..Len(m) : m[j].key = k

TMapGet(m, k) == m[CHOOSE j \in 1..Len(m) : m[j].key = k].value

\* Map.set keeps the position of an existing key and appends a new one.
TMapSet(m, k, v) ==
    IF TMapHas(m, k)
    THEN [j \in 1..Len(m) |-> IF m[j].key = k THEN [key |-> k, value |-> v] ELSE m[j]]
    ELSE Append(m, [key |-> k, value |-> v])

\* Line 125: `${pluginName}/${templateName}`.
NamespacedName(pn, tn) == pn \o "/" \o tn

\* The runner is not looked at.
ValidateTemplateDescriptorOnly(td) == td.descriptor

\* Lines 155-170.
ValidateTemplate(td) == IF ~td.descriptor THEN FALSE ELSE td.runner

\* Lines 127-147; the metadata stay empty when the descriptor does not parse.
TemplateInfo(pn, tn, r, td) ==
    [name |-> tn, plugin |-> pn, namespacedName |-> NamespacedName(pn, tn),
     root |-> r,
     metadata |-> IF td.descriptor /\ td.parses THEN "parsed" ELSE "empty",
     hasRunner |-> td.runner]

\* Lines 118-153 for the directory td named tn under the templates of the
\* provider pn found in root r.
LoadTemplate(tm, pn, tn, r, td) ==
    IF ~ValidateTemplate(td) THEN tm
    ELSE TMapSet(tm, NamespacedName(pn, tn), TemplateInfo(pn, tn, r, td))

\* What lies at path.join(plugin.path, 'templates', t) for the provider
\* directory d of root r.
TemplateAt(dk, tdk, r, d, t) ==
    IF dk.ok[r] /\ dk.dirs[r][d].kind = "dir" THEN tdk[r][d][t] ELSE NoTemplate

\* Lines 97-116: the template directories of provider pl from the k-th on.
RECURSIVE ScanPluginTemplates(_, _, _, _, _)
ScanPluginTemplates(tm, pl, dk, tdk, k) ==
    IF k > Len(TmplSeq) THEN tm
    ELSE LET td == TemplateAt(dk, tdk, pl.root, pl.name, TmplSeq[k])
             t1 == IF td.kind = "absent" THEN tm
                   ELSE LoadTemplate(tm, pl.name, TmplSeq[k], pl.root, td)
         IN  ScanPluginTemplates(t1, pl, dk, tdk, k + 1)

\* Lines 85-95: the providers of catalog pls from the j-th on.
RECURSIVE ScanTemplates(_, _, _, _, _)
ScanTemplates(tm, pls, dk, tdk, j) ==
    IF j > Len(pls) THEN tm
    ELSE ScanTemplates(ScanPluginTemplates(tm, pls[j], dk, tdk, 1), pls, dk, tdk, j + 1)

\* Lines 80-83, when the module is first required; it requires the plugin
\* loader first.
ScannerConstruct ==
    /\ tout = "none"
    /\ lout # "none"
    /\ templates' = ScanTemplates(<<>>, plugins, disk, tdisk, 1)
    /\ tout' = "construct"
    /\ UNCHANGED <<tdisk, loaderVars>>

\* Lines 184-187.
ScannerReload ==
    /\ tout # "none"
    /\ templates' = ScanTemplates(<<>>, plugins, disk, tdisk, 1)
    /\ tout' = "reload"
    /\ UNCHANGED <<tdisk, loaderVars>>

\* A template directory of an installed provider is added, replaced or
\* removed.
InstallTemplate(r, d, t, td) ==
    /\ changes < MaxChanges
    /\ disk.dirs[r][d].kind = "dir"
    /\ td # tdisk[r][d][t]
    /\ tdisk' = [tdisk EXCEPT ![r][d][t] = td]
    /\ changes' = changes + 1
    /\ lout' = IF lout = "none" THEN "none" ELSE "stale"
    /\ tout' = IF tout = "none" THEN "none" ELSE "stale"
    /\ UNCHANGED <<disk, cache, plugins, templates>>

\* The provider directories installed when the templates are looked at.
CatalogCandidates ==
    {c \in Candidates :
        /\ c.index
        /\ ~c.throws
        /\ c.interface \in {Interface("value", "value", "function", "none", "none"),
                            Interface("value", "none", "function", "none", "none")}}

CatalogsNext ==
    \/ LoaderConstruct /\ UNCHANGED <<supervisorVars, serverVars, commandVars>>
    \/ ScannerConstruct /\ UNCHANGED <<supervisorVars, serverVars, commandVars>>
    \/ Reload /\ UNCHANGED <<supervisorVars, serverVars, commandVars>>
    \/ ScannerReload /\ UNCHANGED <<supervisorVars, serverVars, commandVars>>
    \/ LoaderExit /\ UNCHANGED <<supervisorVars, serverVars, commandVars>>
    \/ (\E r \in Roots, d \in DirNames, c \in CatalogCandidates \cup {NoDir} : Install(r, d, c))
            /\ UNCHANGED <<supervisorVars, serverVars, commandVars>>
    \/ (\E r \in Roots, d \in DirNames, t \in TmplNames, td \in TemplateDirs \cup {NoTemplate} :
            InstallTemplate(r, d, t, td))
            /\ UNCHANGED <<supervisorVars, serverVars, commandVars>>

(***************************************************************************)
(* The start command                                                       *)
(***************************************************************************)
\* The values of --packages: the lists of at most MaxPackages names.
RECURSIVE ListsUpTo(_)
ListsUpTo(k) ==
    IF k = 0 THEN {<<>>}
    ELSE ListsUpTo(k - 1) \cup {Append(l, n) : l \in ListsUpTo(k - 1), n \in Names}

PackageLists == ListsUpTo(MaxPackages) \ {<<>>}

\* pc: "idle" (not invoked), "begun", "probing" (awaiting status()), "forcing"
\* (killing what listens on the port), "go", "awaitServer", "packages" (in
\* the loop), "awaitPackage", "stopping", "done", "crashed".  sawRunning:
\* what the probe reported; server: how startServer ended; calls: how often
\* startPackage was called; started: startedCount.
NoCmd == [pc |-> "idle", force |-> FALSE, pkgs |-> <<>>, sawRunning |-> FALSE,
          server |-> "none", calls |-> 0, started |-> 0]

\* The probe is not consulted.
ReturnsAtRunningNever(running, force) == FALSE

\* Lines 66-67 and 99-104: the server runs and --force is not given.
ReturnsAtRunning(running, force) == running /\ ~force

\* The tool is invoked as `start --packages pkgs [--force]`: the modules are
\* loaded, which constructs the supervisor, and the action begins.
CmdBegin(force, pkgs) ==
    /\ cmd.pc = "idle"
    /\ Construct("A")
    /\ cmd' = [NoCmd EXCEPT !.pc = "begun", !.force = force, !.pkgs = pkgs]
    /\ UNCHANGED serverVars

\* Line 65: await zypinServer.status()
CmdProbe(silent) ==
    /\ cmd.pc = "begun"
    /\ StatusCall("local", silent)
    /\ cmd' = [cmd EXCEPT !.pc = "probing"]
    /\ UNCHANGED supervisorVars

\* Lines 65-105: the probe has settled.
CmdProbed ==
    /\ cmd.pc = "probing"
    /\ \/ \E c \in Codes : FetchResponse(c)
       \/ \E r \in NetworkFailures : FetchFails(r)
       \/ FetchGivesUp
    /\ LET running == sout'.result.isRunning
       IN  cmd' = [cmd EXCEPT !.sawRunning = running,
                              !.pc = IF ReturnsAtRunning(running, cmd.force) THEN "done"
                                     ELSE IF running THEN "forcing" ELSE "go"]
    /\ UNCHANGED supervisorVars

\* Lines 67-98: what listens on the port is sent SIGTERM, errors are
\* ignored, and two seconds later the command goes on.
CmdForce(freed) ==
    /\ cmd.pc = "forcing"
    /\ port' = IF freed /\ port = "other" THEN "free" ELSE port
    /\ sout' = NoSOut
    /\ cmd' = [cmd EXCEPT !.pc = "go"]
    /\ UNCHANGED <<srv, listeners, probe, supervisorVars>>

\* Lines 107-108: await zypinServer.startServer()
CmdStartServer ==
    /\ cmd.pc = "go"
    /\ StartServer
    /\ cmd' = [cmd EXCEPT !.pc = IF sout'.ret = "resolved" THEN "packages" ELSE "awaitServer",
                          !.server = sout'.ret]
    /\ UNCHANGED supervisorVars

\* Line 109: startServer has resolved.
CmdServerUp(k) ==
    /\ cmd.pc = "awaitServer"
    /\ ListenCallback(k)
    /\ cmd' = [cmd EXCEPT !.pc = "packages", !.server = "resolved"]
    /\ UNCHANGED supervisorVars

\* Lines 110-114: startServer has failed and the command returns; or the
\* process has died of the error.
CmdServerFailed(k, crash) ==
    /\ cmd.pc = "awaitServer"
    /\ ListenError(k, crash)
    /\ cmd' = [cmd EXCEPT !.pc = IF crash THEN "crashed" ELSE "done",
                          !.server = "rejected"]
    /\ UNCHANGED supervisorVars

\* Lines 119-134: the next name of the list; found: the catalog holds it.
CmdPackage(found, hasStart, w) ==
    /\ cmd.pc = "packages"
    /\ cmd.pkgs # <<>>
    /\ IF ~found \/ ~hasStart
       THEN /\ cmd' = [cmd EXCEPT !.pkgs = Tail(cmd.pkgs)]
            /\ UNCHANGED supervisorVars
       ELSE /\ StartPackage("A", Head(cmd.pkgs), hasStart, w)
            /\ cmd' = [cmd EXCEPT !.pkgs = Tail(cmd.pkgs),
                                  !.calls = cmd.calls + 1,
                                  !.pc = IF out'.ret = "pending" THEN "awaitPackage"
                                         ELSE "packages"]
    /\ UNCHANGED serverVars

\* Lines 133-134: startPackage has settled.
CmdPackageDone(h, w) ==
    /\ cmd.pc = "awaitPackage"
    /\ StartResolve("A", h, w)
    /\ cmd' = [cmd EXCEPT !.pc = "packages",
                          !.started = IF out'.ret = "true" THEN cmd.started + 1
                                      ELSE cmd.started]
    /\ UNCHANGED serverVars

\* Lines 137-143: the loop is over.
CmdFinish ==
    /\ cmd.pc = "packages"
    /\ cmd.pkgs = <<>>
    /\ IF cmd.started = 0
       THEN /\ StopServer
            /\ cmd' = [cmd EXCEPT !.pc = IF sout'.ret = "resolved" THEN "done"
                                         ELSE "stopping"]
       ELSE /\ cmd' = [cmd EXCEPT !.pc = "done"]
            /\ UNCHANGED serverVars
    /\ UNCHANGED supervisorVars

\* Line 142: stopServer has resolved.
CmdStopped(k) ==
    /\ cmd.pc = "stopping"
    /\ CloseCallback(k)
    /\ cmd' = [cmd EXCEPT !.pc = "done"]
    /\ UNCHANGED supervisorVars

CommandInit == cmd = NoCmd

StartNext ==
    \/ (\E force \in BOOLEAN, pkgs \in PackageLists : CmdBegin(force, pkgs))
            /\ UNCHANGED <<loaderVars, templateVars>>
    \/ (\E silent \in BOOLEAN : CmdProbe(silent)) /\ UNCHANGED <<loaderVars, templateVars>>
    \/ CmdProbed /\ UNCHANGED <<loaderVars, templateVars>>
    \/ (\E freed \in BOOLEAN : CmdForce(freed)) /\ UNCHANGED <<loaderVars, templateVars>>
    \/ CmdStartServer /\ UNCHANGED <<loaderVars, templateVars>>
    \/ (\E k \in ListenerIds : CmdServerUp(k)) /\ UNCHANGED <<loaderVars, templateVars>>
    \/ (\E k \in ListenerIds, crash \in BOOLEAN : CmdServerFailed(k, crash))
            /\ UNCHANGED <<loaderVars, templateVars>>
    \/ (\E found, hasStart, w \in BOOLEAN : CmdPackage(found, hasStart, w))
            /\ UNCHANGED <<loaderVars, templateVars>>
    \/ (\E h \in Handles, w \in BOOLEAN : CmdPackageDone(h, w))
            /\ UNCHANGED <<loaderVars, templateVars>>
    \/ CmdFinish /\ UNCHANGED <<loaderVars, templateVars>>
    \/ (\E k \in ListenerIds : CmdStopped(k)) /\ UNCHANGED <<loaderVars, templateVars>>
    \/ (\E p \in Pids : PluginSpawn("A", p))
            /\ UNCHANGED <<serverVars, loaderVars, templateVars, commandVars>>
    \/ OtherBind /\ UNCHANGED <<supervisorVars, loaderVars, templateVars, commandVars>>
    \/ OtherRelease /\ UNCHANGED <<supervisorVars, loaderVars, templateVars, commandVars>>

(***************************************************************************)
(* Init                                                                    *)
(***************************************************************************)
Init ==
    /\ up = [i \in Invocations |-> FALSE]
    /\ processes = [i \in Invocations |-> <<>>]
    /\ pending = [i \in Invocations |-> Idle]
    /\ file = FileMissing
    /\ written = <<>>
    /\ faults = 0
    /\ os = [p \in Pids |-> "none"]
    /\ now = 0
    /\ out = NoOut
    /\ sig = [i \in Invocations |-> FALSE]
    /\ ServerInit
    /\ LoaderInit
    /\ CommandInit

Next ==
    \/ (\E i \in Insts : Construct(i)) /\ UNCHANGED <<serverVars, loaderVars, templateVars, commandVars>>
    \/ (\E i \in Insts : Exit(i)) /\ UNCHANGED <<serverVars, loaderVars, templateVars, commandVars>>
    \/ (\E i \in Insts, n \in Names, hasStart, w \in BOOLEAN : StartPackage(i, n, hasStart, w)) /\ UNCHANGED <<serverVars, loaderVars, templateVars, commandVars>>
    \/ (\E i \in Insts, p \in Pids : PluginSpawn(i, p)) /\ UNCHANGED <<serverVars, loaderVars, templateVars, commandVars>>
    \/ (\E i \in Insts, h \in Handles, w \in BOOLEAN : StartResolve(i, h, w)) /\ UNCHANGED <<serverVars, loaderVars, templateVars, commandVars>>
    \/ (\E i \in Insts : GetStatus(i)) /\ UNCHANGED <<serverVars, loaderVars, templateVars, commandVars>>
    \/ (\E i \in Insts : Health(i)) /\ UNCHANGED <<serverVars, loaderVars, templateVars, commandVars>>
    \/ (\E i \in Insts, R \in SUBSET Pids, w \in BOOLEAN : Signal(i, R, w)) /\ UNCHANGED <<serverVars, loaderVars, templateVars, commandVars>>
    \/ (\E i \in Insts : HandlerExit(i)) /\ UNCHANGED <<serverVars, loaderVars, templateVars, commandVars>>
    \/ (\E p \in Pids : Die(p)) /\ UNCHANGED <<serverVars, loaderVars, templateVars, commandVars>>
    \/ (\E p \in Pids : OtherSpawn(p)) /\ UNCHANGED <<serverVars, loaderVars, templateVars, commandVars>>
    \/ Tick /\ UNCHANGED <<serverVars, loaderVars, templateVars, commandVars>>
    \/ CorruptFile /\ UNCHANGED <<serverVars, loaderVars, templateVars, commandVars>>

Spec == Init /\ [][Next]_vars

\* An earlier invocation started package "c" and left its record in the
\* state file; its process may have exited since.
EarlierRecord == ProcessInfo("c", 1, 0)

InitLoaded ==
    /\ up = [i \in Invocations |-> FALSE]
    /\ processes = [i \in Invocations |-> <<>>]
    /\ pending = [i \in Invocations |-> Idle]
    /\ file = FileJson(<<EarlierRecord>>)
    /\ written = <<EarlierRecord>>
    /\ faults = 0
    /\ os \in {[p \in Pids |-> "none"],
               [p \in Pids |-> IF p = EarlierRecord.pid THEN "own" ELSE "none"]}
    /\ now = 0
    /\ out = NoOut
    /\ sig = [i \in Invocations |-> FALSE]
    /\ ServerInit
    /\ LoaderInit
    /\ CommandInit

SpecLoaded == InitLoaded /\ [][Next]_vars

\* The server alone, in an invocation whose supervisor stays as constructed.
SpecServer == Init /\ [][ServerNext]_vars

\* Two invocations that overlap, each with its own supervisor, on one
\* state file; the providers have a start operation, every write succeeds
\* and no child exits.
OverlapNext ==
    \/ (\E i \in Invocations : Construct(i)) /\ UNCHANGED <<serverVars, loaderVars, templateVars, commandVars>>
    \/ (\E i \in Invocations : Exit(i)) /\ UNCHANGED <<serverVars, loaderVars, templateVars, commandVars>>
    \/ (\E i \in Invocations, n \in Names : StartPackage(i, n, TRUE, TRUE))
            /\ UNCHANGED <<serverVars, loaderVars, templateVars, commandVars>>
    \/ (\E i \in Invocations, p \in Pids : PluginSpawn(i, p)) /\ UNCHANGED <<serverVars, loaderVars, templateVars, commandVars>>
    \/ (\E i \in Invocations, h \in Handles : StartResolve(i, h, TRUE))
            /\ UNCHANGED <<serverVars, loaderVars, templateVars, commandVars>>

SpecOverlap == Init /\ [][OverlapNext]_vars

\* One invocation of the start command.
SpecStart == Init /\ [][StartNext]_vars

\* The plugin loader alone.
SpecLoader == Init /\ [][LoaderNext]_vars

\* The plugin loader and the template scanner.
SpecCatalogs == Init /\ [][CatalogsNext]_vars

\* The network answers, refuses or fails every fetch that it can settle; it
\* owes nothing to a fetch whose endpoint stays silent.
FetchSettles == (\E c \in Codes : FetchResponse(c)) \/ (\E r \in NetworkFailures : FetchFails(r))

\* The event loop runs every callback that is due.
Callbacks ==
    \/ \E k \in ListenerIds : ListenCallback(k)
    \/ \E k \in ListenerIds : ListenError(k, FALSE)
    \/ \E k \in ListenerIds : CloseCallback(k)

SpecServerLive ==
    /\ SpecServer
    /\ WF_vars(FetchSettles /\ UNCHANGED <<supervisorVars, loaderVars, templateVars, commandVars>>)
    /\ WF_vars(Callbacks /\ UNCHANGED <<supervisorVars, loaderVars, templateVars, commandVars>>)

(***************************************************************************)
(* Reading the record of the last operation                                *)
(***************************************************************************)
Mem == processes[out.inst]

HasEv(e, kind) == \E k \in 1..Len(e) : e[k].ev = kind

\* The record is that of the synchronous part of a startPackage call.
Called == out.op = "startPackage" /\ out.handle = NoHandle

\* The record is that of a startPackage call whose provider has settled.
Resolved == out.op = "startPackage" /\ out.handle # NoHandle

\* The table held no record for the name when startPackage was called.
NoRecordAtCall == out.effects # <<>> /\ out.effects[1].ev = "invoke"

\* The table held a record for the name, whose probe failed, at the call.
StaleAtCall ==
    /\ out.effects # <<>>
    /\ out.effects[1].ev = "probe"
    /\ ~out.effects[1].ok

LastSaveOk ==
    /\ out.effects # <<>>
    /\ out.effects[Len(out.effects)].ev = "save"
    /\ out.effects[Len(out.effects)].ok

CountFor(m, n) == Cardinality({k \in 1..Len(m) : m[k].name = n})

\* m holds exactly one record for n, and it carries pid p.
HoldsOne(m, n, p) == CountFor(m, n) = 1 /\ MapGet(m, n).pid = p

(***************************************************************************)
(* C1                                                                      *)
(***************************************************************************)
C1_Case == Resolved /\ NoRecordAtCall /\ UsablePid(out.handle)

C2_ExistingPidRefused ==
    (/\ Called
     /\ MapHas(out.before, out.name)
     /\ Exists(MapGet(out.before, out.name).pid))
    =>  /\ out.ret = "false"
        /\ ~HasEv(out.effects, "invoke")
        /\ Mem = out.before

(***************************************************************************)
(* C3                                                                      *)
(***************************************************************************)
\* The call found a record for x whose pid does not exist, and the provider
\* has the start capability.
C3_CaseCalled ==
    /\ Called
    /\ out.hasStart
    /\ MapHas(out.before, out.name)
    /\ ~Exists(MapGet(out.before, out.name).pid)

C3_Order ==
    /\ Len(out.effects) = 3
    /\ out.effects[1].ev = "probe" /\ ~out.effects[1].ok
    /\ out.effects[2].ev = "save"
    /\ out.effects[3].ev = "invoke"

C3_Succeeds ==
    (Resolved /\ StaleAtCall /\ UsablePid(out.handle))
    =>  /\ out.ret = "true"
        /\ HoldsOne(Mem, out.name, out.handle.pid)

\* C3 as stated: startPackage(x, provider) called while the table holds a
\* record for x whose pid no longer exists removes that record and persists
\* the removal before the provider's start operation is invoked; if the
\* start then succeeds the call returns true and the table holds exactly
\* one record for x, with the new pid.
C3_AsStated ==
    /\ C3_CaseCalled =>
            /\ out.ret = "pending"
            /\ C3_Order
            /\ ~MapHas(Mem, out.name)
            /\ ~MapHas(Persisted, out.name)
    /\ C3_Succeeds

\* C3, amended: the record is removed from the in-memory table and the
\* table is saved before the provider's start operation is invoked, so the
\* removal is persisted by then when that write succeeds; if the start
\* then succeeds the call returns true and the in-memory table holds
\* exactly one record for x, with the new pid.
C3_StalePurgedThenStarted ==
    /\ C3_CaseCalled =>
            /\ out.ret = "pending"
            /\ C3_Order
            /\ ~MapHas(Mem, out.name)
            /\ out.effects[2].ok => ~MapHas(Persisted, out.name)
    /\ C3_Succeeds

C3_Witness ==
    /\ Resolved /\ StaleAtCall /\ UsablePid(out.handle)
    /\ out.effects[2].ok
    /\ out.ret = "true"

(***************************************************************************)
(* C4                                                                      *)
(***************************************************************************)
\* C4: cleanup() called twice in a row raises no error on either call, the
\* persisted table is empty after the first call and after the second, and
\* the second call sends no signal and performs no additional side effect.
\* Stated of the second call, when no write failed in the first.
C4_CleanupTwice ==
    (out.op = "cleanup" /\ out.prev = "cleanup")
    =>  /\ out.effects = <<>>
        /\ Mem = out.before
        /\ file = out.fileBefore
        /\ Persisted = <<>>

(***************************************************************************)
(* C5                                                                      *)
(***************************************************************************)
\* C5: after any cleanup() call, from every reachable supervisor state
\* (including one where the in-memory table is already empty while the
\* state file is not), the in-memory table is empty and, when the state
\* file is writable (no write of this call failed), the persisted table is
\* empty.
C5_CleanupClears ==
    out.op = "cleanup"
    =>  /\ Mem = <<>>
        /\ ~FailedSave(out.effects) => Persisted = <<>>

(***************************************************************************)
(* C6                                                                      *)
(***************************************************************************)
Probes(e) == SelectSeq(e, LAMBDA x : x.ev = "probe")

Failed(x) == x.ev \in {"probe", "kill"} /\ ~x.ok

\* C6: cleanup() makes one termination attempt for every record tracked at
\* the time of the call, in order: the pid is probed first and SIGTERM is
\* sent if and only if the probe succeeds; a pid that does not exist, or
\* that disappears between the probe and the signal, is reported as already
\* dead and raises no error, and the remaining records are still processed
\* (the table is cleared at the end).
C6_CleanupAttempts ==
    out.op = "cleanup"
    =>  LET e == out.effects
            m == out.before
        IN  /\ Len(Probes(e)) = Len(m)
            /\ \A k \in 1..Len(m) : Probes(e)[k].pid = m[k].pid
            /\ \A j \in 1..Len(e) :
                    /\ e[j].ev = "kill" =>
                            j > 1 /\ e[j - 1] = Ev("probe", e[j].pid, TRUE)
                    /\ (e[j].ev = "probe" /\ e[j].ok) =>
                            j < Len(e) /\ e[j + 1].ev = "kill" /\ e[j + 1].pid = e[j].pid
                    /\ Failed(e[j]) =>
                            j < Len(e) /\ e[j + 1] = Ev("warn", e[j].pid, FALSE)
            /\ \A k \in 1..Len(m) :
                    ~Exists(m[k].pid) => \E j \in 1..Len(e) : e[j] = Ev("warn", m[k].pid, FALSE)
            /\ Mem = <<>>

\* Two records: the first one's process exits between probe and signal,
\* the second one is signalled.
C6_Witness ==
    /\ out.op = "cleanup"
    /\ Len(out.before) = 2
    /\ \E j \in 1..Len(out.effects) :
            /\ out.effects[j].ev = "kill" /\ ~out.effects[j].ok
            /\ \E l \in (j + 1)..Len(out.effects) :
                    out.effects[l].ev = "kill" /\ out.effects[l].ok

(***************************************************************************)
(* C7                                                                      *)
(***************************************************************************)
\* C7: when the provider's start operation throws, rejects, or resolves to
\* a value without a usable pid, startPackage returns false (the error
\* does not propagate) and no record for that name is inserted into the
\* in-memory or the persisted table: both are left as they were and the
\* in-memory table holds no record for the name.
C7_FailedStartStoresNothing ==
    (Resolved /\ (out.handle.kind = "throw" \/ out.handle.pid = 0))
    =>  /\ out.ret = "false"
        /\ Mem = out.before
        /\ file = out.fileBefore
        /\ ~MapHas(Mem, out.name)

C7_Witness ==
    /\ Resolved
    /\ out.handle = [kind |-> "value", pid |-> 0]
    /\ out.ret = "false"
    /\ Mem # <<>>

(***************************************************************************)
(* C8                                                                      *)
(***************************************************************************)
\* C8: startPackage called with a provider handle that lacks the start
\* capability returns false without invoking any provider operation and
\* without inserting a record for that name: no call is left awaiting, and
\* every record of the table was there before.
C8_NoStartCapability ==
    (Called /\ ~out.hasStart)
    =>  /\ out.ret = "false"
        /\ ~HasEv(out.effects, "invoke")
        /\ pending[out.inst].state = "idle"
        /\ \A k \in 1..Len(Mem) : \E j \in 1..Len(out.before) : Mem[k] = out.before[j]

\* The call reaches the capability check: no record for the name.
C8_Witness ==
    /\ Called
    /\ ~out.hasStart
    /\ ~MapHas(out.before, out.name)
    /\ out.ret = "false"

(***************************************************************************)
(* C9                                                                      *)
(***************************************************************************)
\* The name -> {pid, startTime} mapping of a table.
Mapping(m) == {m[k] : k \in 1..Len(m)}

C10_Mirrors ==
    /\ \A i \in Insts :
            LET st == GetStatusOf(processes[i])
            IN  /\ st.running = Cardinality(MapKeys(processes[i]))
                /\ st.running = Len(st.packages)
                /\ Mapping(st.packages) = Mapping(processes[i])
    /\ out.op = "getStatus"
        =>  /\ out.payload.running = Cardinality(MapKeys(Mem))
            /\ Mapping(out.payload.packages) = Mapping(Mem)
    /\ out.op = "health"
        =>  /\ out.payload.code = 200
            /\ out.payload.running = GetStatusOf(Mem).running
            /\ out.payload.packages = GetStatusOf(Mem).packages

\* The second of two successful startPackage calls in a row, for distinct
\* names, has just returned.
C10_TwoStarted ==
    /\ Resolved
    /\ out.ret = "true"
    /\ out.prev \notin {"none", out.name}

\* The records of the two started names are listed, the second with the
\* pid its provider reported.
C10_TwoListed ==
    LET st == GetStatusOf(Mem)
    IN  /\ \E k \in 1..Len(st.packages) : st.packages[k].name = out.prev
        /\ \E k \in 1..Len(st.packages) :
                /\ st.packages[k].name = out.name
                /\ st.packages[k].pid = out.handle.pid

\* C10 as stated: at every point getStatus() returns running equal to the
\* number of records in the in-memory table and packages holding exactly
\* those records; after two successful startPackage calls for distinct
\* names running is 2 with the two matching records, and the status
\* endpoint returns this same payload.
C10_AsStated ==
    /\ C10_Mirrors
    /\ C10_TwoStarted => (GetStatusOf(Mem).running = 2 /\ C10_TwoListed)

\* C10, amended: as stated, except that after the two calls running is 2
\* when the table held no record for any other name; in general the two
\* matching records are listed among those of the table.
C10_StatusMirrorsTable ==
    /\ C10_Mirrors
    /\ C10_TwoStarted =>
            /\ C10_TwoListed
            /\ (\A k \in 1..Len(out.before) : out.before[k].name \in {out.prev, out.name})
                => GetStatusOf(Mem).running = 2

C10_Witness ==
    /\ C10_TwoStarted
    /\ \A k \in 1..Len(out.before) : out.before[k].name \in {out.prev, out.name}
    /\ GetStatusOf(Mem).running = 2
    /\ \A k \in 1..Len(Mem) : Exists(Mem[k].pid)

(***************************************************************************)
(* C11                                                                     *)
(***************************************************************************)
Listed(r, st) == \E k \in 1..Len(st.packages) : st.packages[k] = r

\* C11: getStatus() never probes a pid, never signals a process, and leaves
\* the in-memory and persisted tables unchanged; a record whose process has
\* died is still listed, after every operation of a running supervisor
\* other than a startPackage for the same name or a cleanup.
C11_GetStatusReadsOnly ==
    /\ out.op = "getStatus"
        =>  /\ out.effects = <<>>
            /\ Mem = out.before
            /\ file = out.fileBefore
            /\ \A k \in 1..Len(Mem) : Listed(Mem[k], out.payload)
    /\ (up[out.inst] /\ out.op \in {"getStatus", "health", "startPackage"})
        =>  \A k \in 1..Len(out.before) :
                (~Exists(out.before[k].pid) /\ ~(out.op = "startPackage" /\ out.name = out.before[k].name))
                => Listed(out.before[k], GetStatusOf(Mem))

\* getStatus has just listed a record whose process is dead.
C11_Witness ==
    /\ out.op = "getStatus"
    /\ \E k \in 1..Len(Mem) : ~Exists(Mem[k].pid) /\ Listed(Mem[k], out.payload)

(***************************************************************************)
(* C12                                                                     *)
(***************************************************************************)
\* C12: when the state file cannot be written, startPackage and cleanup
\* still complete without raising: a successful start still returns true
\* and its record is in the in-memory table, and getStatus reflects the
\* in-memory table, also where it differs from the persisted one.
C12_WriteFailureNotFatal ==
    /\ (Resolved /\ FailedSave(out.effects) /\ out.handle.kind = "value" /\ out.handle.pid # 0)
        =>  /\ out.ret = "true"
            /\ HoldsOne(Mem, out.name, out.handle.pid)
            /\ pending[out.inst].state = "idle"
    /\ (Called /\ FailedSave(out.effects))
        =>  /\ out.ret \in {"false", "pending"}
            /\ ~MapHas(Mem, out.name)
    /\ (out.op = "cleanup" /\ FailedSave(out.effects))
        =>  /\ up[out.inst]
            /\ Mem = <<>>
    /\ out.op = "getStatus"
        =>  /\ out.payload.packages = Mem
            /\ out.payload.running = Len(Mem)

\* getStatus answers from a table that a failed write left out of the file.
C12_Witness ==
    /\ out.op = "getStatus"
    /\ faults > 0
    /\ Len(Mem) > 0
    /\ Mem # Persisted
    /\ out.payload.packages = Mem

(***************************************************************************)
(* C13                                                                     *)
(***************************************************************************)
\* C13: constructing the supervisor on a missing, unreadable or corrupt
\* state file never raises and yields an empty in-memory table (the file
\* itself is left as it was).
C13_LoadFailsOpen ==
    (out.op = "construct" /\ file.kind \in {"missing", "corrupt"})
    =>  /\ out.ret = "none"
        /\ up[out.inst]
        /\ Mem = <<>>
        /\ file = out.fileBefore

\* A supervisor constructed on a damaged file that once held records.
C13_Witness ==
    /\ out.op = "construct"
    /\ file.kind = "corrupt"
    /\ up[out.inst]
    /\ Mem = <<>>

(***************************************************************************)
(* C14                                                                     *)
(***************************************************************************)
\* C14: on delivery of SIGINT or SIGTERM, cleanup() runs to completion
\* before the process exits: when the signal's listeners have run the
\* process is still there, every record that was in the table has had its
\* termination attempt and the table is cleared; the handler's exit comes
\* only after that.
C14_CleanupBeforeExit ==
    /\ out.op = "cleanup"
        =>  /\ up[out.inst]
            /\ sig[out.inst]
            /\ Mem = <<>>
            /\ \A k \in 1..Len(out.before) :
                    \E j \in 1..Len(out.effects) :
                        out.effects[j].ev = "probe" /\ out.effects[j].pid = out.before[k].pid
    /\ out.op = "exit" => out.prev = "cleanup"
    /\ \A i \in Insts : sig[i] => up[i]

\* A signal arrived while a start was awaited and a live child was tracked.
C14_Witness ==
    /\ out.op = "cleanup"
    /\ sig[out.inst]
    /\ Len(out.before) >= 1
    /\ \E k \in 1..Len(out.before) : Exists(out.before[k].pid)
    /\ pending[out.inst].state = "await"

(***************************************************************************)
(* C15                                                                     *)
(***************************************************************************)
\* C15: startServer() called while the server is already listening (an
\* earlier startServer has completed and the listener is up) resolves
\* immediately without error and without creating a second listener; the
\* fields are left as they were and the server stays listening.
C15_StartIdempotent ==
    (sout.op = "startServer" /\ sout.was.isRunning /\ sout.wasAccepting)
    =>  /\ sout.ret = "resolved"
        /\ ~sout.created
        /\ srv = sout.was
        /\ OursAccepting

C15_Witness ==
    /\ sout.op = "startServer"
    /\ sout.was.isRunning
    /\ sout.wasAccepting
    /\ sout.ret = "resolved"
    /\ listeners[srv.server].state = "listening"

(***************************************************************************)
(* C16                                                                     *)
(***************************************************************************)
\* C16: stopServer() called while the server is not listening resolves
\* immediately without error and changes nothing; after a stopServer()
\* that follows a completed startServer(), the server is not listening and
\* a later stopServer() is again a no-op.
C16_StopIdempotent ==
    /\ (sout.op = "stopServer" /\ ~sout.wasAccepting)
        =>  /\ sout.ret = "resolved"
            /\ srv = sout.was
    /\ (sout.op = "stopServer" /\ sout.was.isRunning)
        => ~OursAccepting
    /\ (sout.op = "stopped")
        => ~OursAccepting /\ ~srv.isRunning

(***************************************************************************)
(* C17                                                                     *)
(***************************************************************************)
\* C17: status(url) never throws or rejects: it always resolves to a
\* result, and for every network-level failure (nothing listening, refused
\* connection, DNS failure, timeout), where no response came, the result
\* has isRunning = false and the error message captured.
C17_StatusNeverThrows ==
    sout.op = "statusDone"
    =>  /\ sout.ret = "resolved"
        /\ sout.result.url \in Urls
        /\ sout.result.status = 0
            =>  /\ ~sout.result.isRunning
                /\ sout.result.error \in NetworkFailures
        /\ sout.result.status # 0 => sout.result.error = "none"

\* Nothing listens on the local port: the probe reports not running.
C17_Witness ==
    /\ sout.op = "statusDone"
    /\ sout.result.url = "local"
    /\ sout.result.error = "refused"
    /\ ~sout.result.isRunning

(***************************************************************************)
(* C18                                                                     *)
(***************************************************************************)
\* C18: whenever status(url) receives any HTTP response from the endpoint,
\* whatever its status code, it reports running = true and surfaces the
\* response's status code.
C18_AnyResponseRunning ==
    (sout.op = "statusDone" /\ sout.result.status # 0)
    =>  /\ sout.result.isRunning
        /\ sout.result.status \in Codes

Declares(f) ==
    /\ f.name \notin {"none", "empty"}
    /\ f.version \notin {"none", "empty"}
    /\ \E c \in {f.start, f.run, f.health} : c = "function"

C20_CatalogHoldsValidOnly ==
    /\ \A k \in 1..Len(plugins) :
          /\ Declares(plugins[k].interface)
          /\ cache[plugins[k].root][plugins[k].name] =
                [cached |-> TRUE, interface |-> plugins[k].interface]
    /\ \A f \in AllInterfaces : ~Declares(f) => ~ValidatePluginInterface(f)

\* A reload has filled the catalog while a directory with an entry point
\* whose interface is incomplete lay under a readable root.
C20_Witness ==
    /\ lout = "reload"
    /\ Len(plugins) > 0
    /\ \E r \in Roots, d \in DirNames :
          /\ disk.ok[r]
          /\ disk.dirs[r][d].index
          /\ ~disk.dirs[r][d].throws
          /\ cache[r][d].cached
          /\ ~Declares(cache[r][d].interface)
          /\ ~MapHas(plugins, d)


(***************************************************************************)
(* C21: discovery never raises: a candidate with no entry point, a module  *)
(* that throws on load, or an unreadable root directory is skipped, and    *)
(* every other valid candidate in the same and in later root paths is      *)
(* still cataloged (one valid provider plus one directory without entry    *)
(* point yields a catalog of size exactly 1).  A candidate is valid when   *)
(* the module that require returns for it declares a complete interface;   *)
(* at construction that is the module on disk.                             *)
(***************************************************************************)
Discovered == lout \in {"construct", "reload"}

\* Directory d of root r is there, has an entry point that loads, and the
\* module on disk declares a complete interface.
ValidOnDisk(r, d) ==
    /\ disk.ok[r]
    /\ disk.dirs[r][d].kind = "dir"
    /\ disk.dirs[r][d].index
    /\ ~disk.dirs[r][d].throws
    /\ Declares(disk.dirs[r][d].interface)

\* The same, for the module as require returned it to the last discovery.
ValidAsLoaded(r, d) ==
    /\ disk.ok[r]
    /\ disk.dirs[r][d].kind = "dir"
    /\ disk.dirs[r][d].index
    /\ cache[r][d].cached
    /\ Declares(cache[r][d].interface)

\* Directory d of root r is skipped by discovery before any module is
\* looked at.
Skipped(r, d) ==
    /\ disk.dirs[r][d].kind = "dir"
    /\ \/ ~disk.ok[r]
       \/ ~disk.dirs[r][d].index
       \/ disk.dirs[r][d].throws /\ ~cache[r][d].cached

\* The disk without the directories that are skipped.
WithoutSkipped ==
    [disk EXCEPT !.dirs = [r \in Roots |-> [d \in DirNames |->
                              IF Skipped(r, d) THEN NoDir ELSE disk.dirs[r][d]]]]

C21_DiscoveryNeverRaises ==
    /\ lout = "construct" =>
          \A r \in Roots, d \in DirNames : ValidOnDisk(r, d) => MapHas(plugins, d)
    /\ Discovered =>
          /\ ~Discover(cache, disk).thrown
          /\ \A r \in Roots, d \in DirNames : ValidAsLoaded(r, d) => MapHas(plugins, d)
          /\ Len(plugins) =
                Cardinality({d \in DirNames : \E r \in Roots : ValidAsLoaded(r, d)})
          /\ plugins = Discover(cache, WithoutSkipped).plugins

\* Construction found a directory that is skipped ahead of a valid
\* provider in the same root, and the catalog holds exactly that provider.
C21_Witness ==
    /\ lout = "construct"
    /\ Len(plugins) = 1
    /\ \E r \in Roots :
          /\ Skipped(r, DirSeq[1])
          /\ disk.ok[r]
          /\ ValidOnDisk(r, DirSeq[2])
          /\ plugins[1].name = DirSeq[2]
          /\ plugins[1].root = r


(***************************************************************************)
(* C22: when two valid providers in different root paths have the same     *)
(* logical name, the catalog holds exactly one record for that name and    *)
(* it is the one from the root path scanned last in the configured order.  *)
(***************************************************************************)
\* The last root, in the configured order, that offers a valid d.
LastValidRoot(d) ==
    CHOOSE r \in Roots :
        /\ ValidAsLoaded(r, d)
        /\ \A q \in Roots : ValidAsLoaded(q, d) => q <= r

RecordsNamed(d) == {k \in 1..Len(plugins) : plugins[k].name = d}

C22_LastRootWins ==
    Discovered =>
        \A d \in DirNames :
            (\E r1, r2 \in Roots : r1 # r2 /\ ValidAsLoaded(r1, d) /\ ValidAsLoaded(r2, d)) =>
                /\ Cardinality(RecordsNamed(d)) = 1
                /\ MapGet(plugins, d) =
                      PluginInfo(d, LastValidRoot(d), cache[LastValidRoot(d)][d].interface)

\* Construction found the same name in both roots, with two different
\* complete interfaces, and cataloged the one of the later root.
C22_Witness ==
    /\ lout = "construct"
    /\ \E d \in DirNames :
          /\ ValidOnDisk(1, d)
          /\ ValidOnDisk(2, d)
          /\ disk.dirs[1][d].interface # disk.dirs[2][d].interface
          /\ MapHas(plugins, d)
          /\ MapGet(plugins, d).root = 2
          /\ MapGet(plugins, d).interface = disk.dirs[2][d].interface


(***************************************************************************)
(* C23: every record in the template catalog comes from a template         *)
(* directory that had both the descriptor file (package.json) and the      *)
(* execution entry point (runner.js); a directory lacking either is        *)
(* excluded without aborting the scan of the other templates and           *)
(* providers.                                                              *)
(***************************************************************************)
Scanned == tout \in {"construct", "reload"}

\* The template directory a record of the catalog was made from.
DirOf(v) == TemplateAt(disk, tdisk, v.root, v.plugin, v.name)

Complete(td) == td.kind = "dir" /\ td.descriptor /\ td.runner

\* The complete template directories under the cataloged providers.
CompleteUnderCatalog ==
    {x \in (1..Len(plugins)) \X TmplNames :
        Complete(TemplateAt(disk, tdisk, plugins[x[1]].root, plugins[x[1]].name, x[2]))}

C23_TemplatesHaveBothFiles ==
    /\ \A j \in 1..Len(templates) : templates[j].value.hasRunner
    /\ Scanned =>
          /\ \A j \in 1..Len(templates) : Complete(DirOf(templates[j].value))
          /\ \A x \in CompleteUnderCatalog :
                TMapHas(templates, NamespacedName(plugins[x[1]].name, x[2]))
          /\ Len(templates) = Cardinality(CompleteUnderCatalog)

\* A scan has cataloged a template whose provider also holds, ahead of it,
\* a template directory that lacks the descriptor or the runner.
C23_Witness ==
    /\ Scanned
    /\ \E k \in 1..Len(plugins) :
          LET first == TemplateAt(disk, tdisk, plugins[k].root, plugins[k].name, TmplSeq[1])
          IN  /\ first.kind = "dir"
              /\ ~Complete(first)
              /\ ~TMapHas(templates, NamespacedName(plugins[k].name, TmplSeq[1]))
              /\ TMapHas(templates, NamespacedName(plugins[k].name, TmplSeq[2]))


(***************************************************************************)
(* C24: after reload(), the provider catalog and the template catalog both *)
(* equal what a fresh discovery plus template scan of the current disk     *)
(* contents would produce: a provider or template removed from disk is no  *)
(* longer in either catalog and a newly installed one is in both.          *)
(***************************************************************************)
\* What an invocation started now would discover and scan.
FreshPlugins == Discover(EmptyCache, disk).plugins

FreshTemplates == ScanTemplates(<<>>, FreshPlugins, disk, tdisk, 1)

C24_ReloadEqualsFresh ==
    (tout # "none" /\ (lout = "reload" \/ tout = "reload")) =>
        /\ plugins = FreshPlugins
        /\ templates = FreshTemplates


(***************************************************************************)
(* C30: in every reachable state of the two catalogs, after construction   *)
(* and after any sequence of reload() calls on the plugin loader and the   *)
(* template scanner, each template record is stored under the key provider *)
(* name + '/' + template name, that key equals its namespacedName, and its *)
(* owning provider name is a key of the provider catalog.                  *)
(***************************************************************************)
C30_TemplateKeysAndOwners ==
    \A j \in 1..Len(templates) :
        /\ templates[j].key = templates[j].value.plugin \o "/" \o templates[j].value.name
        /\ templates[j].key = templates[j].value.namespacedName
        /\ MapHas(plugins, templates[j].value.plugin)


(***************************************************************************)
(* C25: the state file is read only at supervisor construction and every   *)
(* save replaces the whole file with the writer's in-memory table, with no *)
(* lock and no re-read; so when two invocations overlap and each           *)
(* successfully starts a different name, the record persisted by one can   *)
(* be overwritten by the other's save, leaving a started process that is   *)
(* in no persisted table.                                                  *)
(***************************************************************************)
\* The records of table m2 that table m1 does not hold.
Gained(m1, m2) == {k \in 1..Len(m2) : \A j \in 1..Len(m1) : m1[j] # m2[k]}

C25_WholeFileNoReread ==
    [][ /\ file' # file =>
              \E i \in Invocations :
                  /\ up'[i]
                  /\ out'.inst = i
                  /\ file' = FileJson(processes'[i])
        /\ \A i \in Invocations :
              (up[i] /\ up'[i]) =>
                  \A k \in Gained(processes[i], processes'[i]) :
                      /\ out'.op = "startPackage"
                      /\ out'.inst = i
                      /\ out'.ret = "true"
                      /\ processes'[i][k] = ProcessInfo(out'.name, out'.pid, now)
      ]_vars

\* Two invocations run, each holds the record of the one name it started
\* and both children live, every write has succeeded, and the state file
\* lacks the record of one of the two.
C25_Witness ==
    /\ \A i \in Invocations : up[i] /\ pending[i].state = "idle"
    /\ faults = 0
    /\ file.kind = "json"
    /\ \E n1, n2 \in Names :
          /\ n1 # n2
          /\ MapKeys(processes["A"]) = {n1}
          /\ MapKeys(processes["B"]) = {n2}
          /\ os[MapGet(processes["A"], n1).pid] = "own"
          /\ os[MapGet(processes["B"], n2).pid] = "own"
          /\ MapGet(processes["A"], n1).pid # MapGet(processes["B"], n2).pid
          /\ MapKeys(Persisted) \in {{n1}, {n2}}


(***************************************************************************)
(* C28: for every interleaving of startServer() calls, including a second  *)
(* call issued before the first call's promise has resolved, at most one   *)
(* listener is created on the port and every call resolves without error.  *)
(***************************************************************************)
C28_OneListenerNoError ==
    /\ Cardinality({k \in ListenerIds : Accepting(listeners[k])}) <= 1
    /\ (sout.op = "startServer" /\ sout.created) => ~sout.wasAccepting
    /\ (sout.op = "startFailed") => ~sout.wasAccepting


(***************************************************************************)
(* C26: in the start command without --force, when the liveness probe of   *)
(* the local status endpoint reports a running controller, the command     *)
(* starts no listener and calls startPackage for no package; and when      *)
(* startServer fails, no package is started either.  startPackage is       *)
(* reached only after startServer has resolved successfully.               *)
(***************************************************************************)
NoListenerMade == srv = InitSrv /\ \A k \in ListenerIds : listeners[k] = NoListener

NoPackageCalled ==
    /\ cmd.calls = 0
    /\ cmd.started = 0
    /\ pending["A"].state = "idle"
    /\ out.op # "startPackage"
    /\ processes["A"] = <<>>
    /\ \A p \in Pids : os[p] = "none"

C26_ServerBeforePackages ==
    /\ (cmd.sawRunning /\ ~cmd.force) =>
          /\ cmd.pc = "done"
          /\ cmd.server = "none"
          /\ NoListenerMade
          /\ NoPackageCalled
    /\ (cmd.server = "rejected") => NoPackageCalled
    /\ (cmd.calls > 0 \/ pending["A"].state # "idle" \/ out.op = "startPackage") =>
          cmd.server = "resolved"

\* The command, given no --force, has returned because the probe found a
\* controller on the port.
C26_Witness ==
    /\ cmd.pc = "done"
    /\ cmd.sawRunning
    /\ ~cmd.force
    /\ port = "other"
    /\ sout.op = "statusDone"
    /\ sout.result.isRunning


(***************************************************************************)
(* C27: a call startPackage(x, ...) never adds, removes or alters the      *)
(* record of any name other than x, whatever it returns; and when it       *)
(* returns false it adds no record for x, the only change it may have made *)
(* being the removal of a stale record for x.                              *)
(***************************************************************************)
\* The records of the names other than x, in their order.
Others(m, x) == SelectSeq(m, LAMBDA r : r.name # x)

\* The last step was one of startPackage(x, ...): the part up to the await
\* (ret "pending", or "false" when it returns at once) or the part after it.
C27_StartPackageFrame ==
    (out.op = "startPackage") =>
        LET x      == out.name
            before == out.before
            after  == processes[out.inst]
        IN  /\ Others(after, x) = Others(before, x)
            /\ out.ret \in {"false", "pending"} =>
                  /\ after \in {before, MapDelete(before, x)}
                  /\ after # before =>
                        /\ MapHas(before, x)
                        /\ \E k \in 1..Len(out.effects) :
                              out.effects[k] = Ev("probe", MapGet(before, x).pid, FALSE)
            /\ out.ret = "true" => MapHas(after, x)

\* startPackage(x) has returned false after it removed the stale record of
\* x, and the record of another name is as it was.
C27_Witness ==
    /\ out.op = "startPackage"
    /\ out.ret = "false"
    /\ MapHas(out.before, out.name)
    /\ ~MapHas(processes[out.inst], out.name)
    /\ Len(processes[out.inst]) > 0
    /\ Others(out.before, out.name) = processes[out.inst]


(***************************************************************************)
(* C29: if SIGINT or SIGTERM arrives while a startPackage call is still    *)
(* awaiting the provider's start operation, then at process exit the       *)
(* persisted table is empty and no child reported by that start is left    *)
(* both running and never sent a termination signal.                       *)
(***************************************************************************)
\* The process has just exited from the signal handler, and every write of
\* the state file it attempted has succeeded.  out.before is the table it
\* exits with: the records put there since cleanup() cleared it.
C29_SignalDuringStart ==
    (out.op = "exit" /\ out.prev = "cleanup" /\ faults = 0) =>
        /\ Persisted = <<>>
        /\ \A k \in 1..Len(out.before) : os[out.before[k].pid] # "own"

====
